---- MODULE Spec2Model ----
(***************************************************************************)
(* Model of demos/streamspeech2text/main.go: a pipeline of four goroutines *)
(* (startListeningStdin, startReceivingStream, startTranslating,           *)
(* startSpeaking) started by main and connected by two unbuffered          *)
(* channels, alts and texts.                                               *)
(*                                                                         *)
(* Every goroutine is cut at its blocking calls (a read of stdin, a call   *)
(* on the recognition session, a channel operation, a request to the       *)
(* translation or synthesis service, the file write), so one action is the *)
(* code between two such calls.  A send on an unbuffered channel and the   *)
(* matching receive are one joint action of the two goroutines.            *)
(* log.Fatal/log.Fatalf end the process (os.Exit(1)); panic in main ends   *)
(* it with status 2.  After that no action is enabled.                     *)
(*                                                                         *)
(* The three services and stdin are the environment: their answers are     *)
(* chosen nondeterministically at the call, from the sets below.           *)
(***************************************************************************)
EXTENDS Integers, Sequences, FiniteSets, TLC

\* ------------------------------------------------------------------ bounds
\* Number of os.Stdin.Read calls after which stdin only answers end-of-input.
MaxReads == 1
\* Number of alternatives the recognizer returns over the whole session, and
\* the largest number of results in one response.
MaxItems == 2

\* buf := make([]byte, 1024)
BufLen == 1024

\* Transcripts the recognizer can return.
Texts == {"ola", "hi"}

\* --------------------------------------------------------------- services
\* client.Translate(ctx, []string{text}, target, nil)[0].Text: the service
\* is a function of the text and the (fixed) target language.
Translate(text) == <<"pt-BR", text>>

\* client.SynthesizeSpeech(ctx, &req).AudioContent: a function of the text.
SynthesizeSpeech(text) == <<"mp3", text>>

\* Content of output.mp3 before the first write.
NoFile == <<>>

\* resp.Error.Code values; NoError is a nil resp.Error.
NoError == 0
ErrorCodes == {3, 11, 13}

BSeq(S, n) == UNION {[1..k -> S] : k \in 0..n}

RECURSIVE FlattenFrom(_, _)
FlattenFrom(results, i) ==
    IF i > Len(results) THEN <<>>
    ELSE results[i] \o FlattenFrom(results, i + 1)

\* The alternatives of a response in the order of the two nested range loops.
Flatten(results) == FlattenFrom(results, 1)

\* resp.Results of the responses the recognizer may return when it has
\* `budget` alternatives left: at most MaxItems results.
ResultsWithin(budget) ==
    {rs \in BSeq(BSeq(Texts, budget), MaxItems) : Len(Flatten(rs)) <= budget}

\* resp.Results of the responses with an Error the recognizer may return: they
\* carry at most one alternative.
ErrorResultsWithin(budget) ==
    {<<>>, << <<>> >>} \cup (IF budget = 0 THEN {} ELSE {<< <<t>> >> : t \in Texts})

VARIABLES
    exit,        \* "running", "exit1" (log.Fatal) or "exit2" (panic)
    fatalAt,     \* the call whose failure ended the process, or "none"
    warned,      \* the 60 seconds warning was logged
    mpc,         \* main: "setup", "wait"
    configSent,  \* the config message was sent on the session
    lpc,         \* startListeningStdin: "idle", "read", "send", "close", "done"
    n,           \* n of this iteration's Read
    rerr,        \* err of this iteration's Read: "nil", "EOF", "err"
    reads,       \* Read calls so far
    chunks,      \* Reads that returned data and no error
    readFailed,  \* some Read returned an error other than io.EOF
    audioSends,  \* Send calls with an AudioContent message
    sendErrs,    \* Send calls that returned an error
    closeSends,  \* CloseSend calls
    rpc,         \* startReceivingStream: "idle", "recv", "fwd", "done"
    resp,        \* resp.Results of this iteration's response
    respCode,    \* resp.Error.Code of this iteration's response
    ri, ai,      \* position of the two range loops in resp
    fwdBase,     \* Len(fwd) when the receiver last called Recv
    fwd,         \* everything sent on alts, in order
    tpc,         \* startTranslating: "idle", "recv", "translate", "send"
    ttext,       \* text
    translation, \* translations[0].Text
    transReqs,   \* texts given to client.Translate, in order
    spc,         \* startSpeaking: "idle", "init", "recv", "synth", "write"
    textsRecv,   \* everything received from texts, in order
    stext,       \* text
    audio,       \* resp.AudioContent
    synthReqs,   \* texts given to client.SynthesizeSpeech, in order
    lastAudio,   \* audio of the last successful SynthesizeSpeech
    file         \* content of output.mp3

mainVars == <<mpc, configSent>>
procVars == <<exit, fatalAt, warned>>
lVars == <<lpc, n, rerr, reads, chunks, readFailed, audioSends, sendErrs,
           closeSends>>
rVars == <<rpc, resp, respCode, ri, ai, fwdBase>>
tVars == <<tpc, ttext, translation, transReqs>>
sVars == <<spc, textsRecv, stext, audio, synthReqs, lastAudio, file>>
vars == <<procVars, mainVars, lVars, rVars, fwd, tVars, sVars>>

Init ==
    /\ exit = "running" /\ fatalAt = "none" /\ warned = FALSE
    /\ mpc = "setup" /\ configSent = FALSE
    /\ lpc = "idle" /\ n = 0 /\ rerr = "nil" /\ reads = 0 /\ chunks = 0
    /\ readFailed = FALSE /\ audioSends = 0 /\ sendErrs = 0
    /\ closeSends = 0
    /\ rpc = "idle" /\ resp = <<>> /\ respCode = NoError /\ ri = 0 /\ ai = 0
    /\ fwdBase = 0 /\ fwd = <<>>
    /\ tpc = "idle" /\ ttext = "" /\ translation = <<>> /\ transReqs = <<>>
    /\ spc = "idle" /\ textsRecv = <<>> /\ stext = <<>> /\ audio = NoFile /\ synthReqs = <<>>
    /\ lastAudio = NoFile /\ file = NoFile

Running == exit = "running"

\* Fatal with log.Printf in the place of log.Fatalf: the process goes on.
Fatal_LogOnly(at) == /\ exit' = exit /\ fatalAt' = at

\* log.Fatal, log.Fatalf: the message, then os.Exit(1).
Fatal(at) == /\ exit' = "exit1" /\ fatalAt' = at

\* ------------------------------------------------------------------- main
\* setupSpeechStream and main: speech.NewClient, StreamingRecognize and the
\* Send of the config message; an error of any of them makes main panic.
\* Otherwise main starts the four goroutines and blocks on <-wait.
SetupOutcomes == {"ok", "speechClient", "stream", "config"}

\* MainWait without the receive: main returns after the go statements, and
\* the process exits with status 0.
MainWait_Returns ==
    /\ mpc' = "returned"
    /\ exit' = "exit0"
    /\ UNCHANGED <<fatalAt, warned>>

\* wait := make(chan interface{}); <-wait: nothing sends on wait or closes
\* it, so main stays at the receive and the process goes on.
MainWait ==
    /\ mpc' = "wait"
    /\ UNCHANGED procVars

\* SetupFailed with the error of setupSpeechStream dropped: main goes on to
\* start the goroutines on whatever stream it got.
SetupFailed_Ignored(outcome) ==
    /\ fatalAt' = outcome
    /\ mpc' = "wait"
    /\ lpc' = "read" /\ rpc' = "recv" /\ tpc' = "recv" /\ spc' = "init"
    /\ UNCHANGED <<exit, warned, configSent>>

\* if err != nil { panic(err) }: the process ends with status 2 before any
\* go statement.
SetupFailed(outcome) ==
    /\ exit' = "exit2" /\ fatalAt' = outcome
    /\ UNCHANGED <<warned, mpc, configSent, lpc, rpc, tpc, spc>>

Setup ==
    /\ Running /\ mpc = "setup"
    /\ \E outcome \in SetupOutcomes :
         IF outcome = "ok"
         THEN /\ configSent' = TRUE
              /\ lpc' = "read" /\ rpc' = "recv" /\ tpc' = "recv" /\ spc' = "init"
              /\ MainWait
         ELSE SetupFailed(outcome)
    /\ UNCHANGED <<n, rerr, reads, chunks, readFailed, audioSends, sendErrs,
                   closeSends, resp, respCode, ri, ai, fwdBase, fwd,
                   ttext, translation, transReqs, textsRecv, stext, audio,
                   synthReqs, lastAudio, file>>

\* ------------------------------------------------------ startListeningStdin
\* What (*os.File).Read can return for buf: data and no error, nothing and
\* io.EOF, or an error with the bytes read before it.  Of the lengths
\* 1..BufLen the shortest and the longest stand for all.
ReadOutcomes ==
    IF reads < MaxReads
    THEN ({1, BufLen} \X {"nil"}) \cup {<<0, "EOF">>} \cup ({0, BufLen} \X {"err"})
    ELSE {<<0, "EOF">>}

\* n, err := os.Stdin.Read(buf)
L_Read ==
    /\ Running /\ lpc = "read"
    /\ \E o \in ReadOutcomes :
         /\ n' = o[1] /\ rerr' = o[2]
         /\ chunks' = IF o[2] = "nil" THEN chunks + 1 ELSE chunks
         /\ readFailed' = (readFailed \/ o[2] = "err")
    /\ reads' = reads + 1
    /\ lpc' = "send"
    /\ UNCHANGED <<procVars, mainVars, audioSends, sendErrs, closeSends,
                   rVars, fwd, tVars, sVars>>

\* AfterSend with every error of the Read, not only io.EOF, ending the loop.
AfterSend_AnyErrorEnds(err) == IF err = "nil" THEN "read" ELSE "close"

\* Where the loop goes after the Send: to CloseSend when the Read returned
\* io.EOF, else to the next Read (the read error, if any, is only logged).
AfterSend(err) == IF err = "EOF" THEN "close" ELSE "read"

\* OnSendError with log.Fatalf in the place of log.Printf.
OnSendError_Fatal == Fatal("send") /\ UNCHANGED warned

\* What the failure of a Send does to the process: it is only logged.
OnSendError == UNCHANGED procVars

\* stream.Send(AudioContent: buf[:n]), whatever n and err are, and then the
\* two tests of the Read's err.  n and err are declared in the loop body, so
\* they end with the iteration.
L_Send ==
    /\ Running /\ lpc = "send"
    /\ \E ok \in BOOLEAN :
         IF ok THEN UNCHANGED <<procVars, sendErrs>>
         ELSE sendErrs' = sendErrs + 1 /\ OnSendError
    /\ audioSends' = audioSends + 1
    /\ lpc' = AfterSend(rerr)
    /\ n' = 0 /\ rerr' = "nil"
    /\ UNCHANGED <<mainVars, reads, chunks, readFailed, closeSends, rVars,
                   fwd, tVars, sVars>>

\* AfterClose without the return: the loop goes on after CloseSend.
AfterClose_NoReturn == "read"

\* The goroutine after a successful CloseSend: it returns.
AfterClose == "done"

\* OnCloseError with log.Printf in the place of log.Fatalf, as for a failed
\* Send: the error is logged and the goroutine returns.
OnCloseError_LogOnly ==
    /\ fatalAt' = "close"
    /\ lpc' = AfterClose
    /\ UNCHANGED <<exit, warned>>

\* log.Fatalf("Could not close stream: %v", err)
OnCloseError == Fatal("close") /\ UNCHANGED <<warned, lpc>>

\* stream.CloseSend(); an error is fatal, otherwise the goroutine returns.
L_Close ==
    /\ Running /\ lpc = "close"
    /\ closeSends' = closeSends + 1
    /\ \E ok \in BOOLEAN :
         IF ok THEN lpc' = AfterClose /\ UNCHANGED procVars
         ELSE OnCloseError
    /\ UNCHANGED <<mainVars, n, rerr, reads, chunks, readFailed, audioSends,
                   sendErrs, rVars, fwd, tVars, sVars>>

\* ----------------------------------------------------- startReceivingStream
\* GetAlternatives keeping the top alternative only.
GetAlternatives_TopOnly(result) ==
    IF Len(result) = 0 THEN <<>> ELSE <<result[1]>>

\* result.GetAlternatives(): the alternatives of one result, all of them.
GetAlternatives(result) == result

\* The first result at or after index i that has an alternative to range
\* over, 0 when the outer range loop ends.
RECURSIVE NextResult(_, _)
NextResult(results, i) ==
    IF i > Len(results) THEN 0
    ELSE IF Len(GetAlternatives(results[i])) > 0 THEN i
    ELSE NextResult(results, i + 1)

\* The receiver at position (i, 1) of the loops, or, when the loops are
\* over (i = 0), back at Recv: resp is declared in the loop body and ends
\* with the iteration.
EnterResult(results, i, sent) ==
    /\ ri' = i
    /\ ai' = IF i = 0 THEN 0 ELSE 1
    /\ rpc' = IF i = 0 THEN "recv" ELSE "fwd"
    /\ resp' = IF i = 0 THEN <<>> ELSE results
    /\ fwdBase' = IF i = 0 THEN sent ELSE fwdBase

\* OnResponseError with the error logged and the response handled like any
\* other.
OnResponseError_LogOnly(results, code) ==
    /\ warned' = (code = 3 \/ code = 11)
    /\ EnterResult(results, NextResult(results, 1), Len(fwd))
    /\ UNCHANGED <<exit, fatalAt>>

\* What the receiver does with a response whose Error is set: log.Fatalf,
\* after the warning for the codes 3 and 11.
OnResponseError(results, code) ==
    /\ warned' = (code = 3 \/ code = 11)
    /\ Fatal("recognize")
    /\ resp' = results
    /\ UNCHANGED <<rpc, ri, ai, fwdBase>>

\* resp, err := stream.Recv() and the tests that follow it, up to the head
\* of the range loops.  The recognizer has MaxItems - Len(fwd) alternatives
\* left to return.
R_Recv ==
    /\ Running /\ rpc = "recv"
    /\ \/ \* io.EOF: break, the goroutine returns
          /\ rpc' = "done"
          /\ UNCHANGED <<procVars, resp, respCode, ri, ai, fwdBase>>
       \/ \* any other error of Recv
          /\ Fatal("recv")
          /\ UNCHANGED <<warned, rpc, resp, respCode, ri, ai, fwdBase>>
       \/ \* a response with no Error
          \E results \in ResultsWithin(MaxItems - Len(fwd)) :
            /\ respCode' = NoError
            /\ EnterResult(results, NextResult(results, 1), Len(fwd))
            /\ UNCHANGED procVars
       \/ \* a response with an Error
          \E results \in ErrorResultsWithin(MaxItems - Len(fwd)) :
          \E code \in ErrorCodes :
            /\ respCode' = code
            /\ OnResponseError(results, code)
    /\ UNCHANGED <<mainVars, lVars, fwd, tVars, sVars>>

\* AltsReceiverWaiting for a channel with room: the send completes whether
\* or not the translator is at its receive.
AltsReceiverWaiting_Buffered == tpc \in {"recv", "translate", "send"}

\* alts := make(chan *speechpb.SpeechRecognitionAlternative) has no buffer: a
\* send on it completes only while the translator is at (<-alts).
AltsReceiverWaiting == tpc = "recv"

\* alts <- alt in the receiver meeting (<-alts).Transcript in the
\* translator: alts is unbuffered, so the two happen together.
R_Forward ==
    /\ Running /\ rpc = "fwd" /\ AltsReceiverWaiting
    /\ LET alt == GetAlternatives(resp[ri])[ai] IN
         /\ fwd' = Append(fwd, alt)
         /\ ttext' = alt
    /\ tpc' = "translate"
    /\ IF ai < Len(GetAlternatives(resp[ri]))
       THEN ai' = ai + 1 /\ UNCHANGED <<ri, rpc, resp, fwdBase>>
       ELSE EnterResult(resp, NextResult(resp, ri + 1), Len(fwd) + 1)
    /\ UNCHANGED <<procVars, mainVars, lVars, respCode, translation,
                   transReqs, sVars>>

\* --------------------------------------------------------- startTranslating
\* translate.NewClient, language.Parse(code) and client.Translate.  code is
\* the constant "pt-BR" main passes, which Parse accepts, so only the two
\* service calls can fail; each failure is fatal.
TranslateOutcomes == {"ok", "translateClient", "translate"}

T_Translate ==
    /\ Running /\ tpc = "translate"
    /\ \E outcome \in TranslateOutcomes :
         /\ transReqs' = IF outcome = "translateClient" THEN transReqs
                         ELSE Append(transReqs, ttext)
         /\ IF outcome = "ok"
            THEN /\ translation' = Translate(ttext)
                 /\ tpc' = "send"
                 /\ UNCHANGED procVars
            ELSE /\ Fatal(outcome)
                 /\ UNCHANGED <<warned, translation, tpc>>
    /\ UNCHANGED <<mainVars, lVars, rVars, fwd, ttext, sVars>>

\* AfterTextSend with a return in the place of the loop: the translator ends
\* after its first text.
AfterTextSend_Return == "done"

\* AfterTextSend with the loop starting over below the receive from alts.
AfterTextSend_NoReceive == "translate"

\* The translator after texts <- translations[0].Text: the for loop starts
\* over at the receive from alts.
AfterTextSend == "recv"

\* texts := make(chan string) has no buffer: a send on it completes only
\* while the speaker is at <-texts.
TextsReceiverWaiting == spc = "recv"

\* texts <- translations[0].Text in the translator meeting text := <-texts
\* in the speaker: texts is unbuffered.
T_Send ==
    /\ Running /\ tpc = "send" /\ TextsReceiverWaiting
    /\ stext' = translation
    /\ textsRecv' = Append(textsRecv, translation)
    /\ spc' = "synth"
    /\ tpc' = AfterTextSend
    /\ UNCHANGED <<procVars, mainVars, lVars, rVars, fwd, ttext, translation,
                   transReqs, audio, synthReqs, lastAudio, file>>

\* ------------------------------------------------------------ startSpeaking
\* texttospeech.NewClient before the loop.
S_Init ==
    /\ Running /\ spc = "init"
    /\ \E ok \in BOOLEAN :
         IF ok THEN spc' = "recv" /\ UNCHANGED procVars
         ELSE Fatal("ttsclient") /\ UNCHANGED <<warned, spc>>
    /\ UNCHANGED <<mainVars, lVars, rVars, fwd, tVars, textsRecv, stext,
                   audio, synthReqs, lastAudio, file>>

\* client.SynthesizeSpeech(ctx, &req)
S_Synth ==
    /\ Running /\ spc = "synth"
    /\ synthReqs' = Append(synthReqs, stext)
    /\ \E ok \in BOOLEAN :
         IF ok
         THEN /\ audio' = SynthesizeSpeech(stext)
              /\ lastAudio' = SynthesizeSpeech(stext)
              /\ spc' = "write"
              /\ UNCHANGED procVars
         ELSE /\ Fatal("synth")
              /\ UNCHANGED <<warned, audio, lastAudio, spc>>
    /\ UNCHANGED <<mainVars, lVars, rVars, fwd, tVars, textsRecv, stext, file>>

\* WriteFile opening the file with O_APPEND in the place of O_TRUNC.
WriteFile_Append(old, data) == old \o data

\* The content of the file after ioutil.WriteFile(filename, data, 0644)
\* returned nil: the file is opened with O_TRUNC, so data replaces it.
WriteFile(old, data) == data

\* The contents a failed ioutil.WriteFile can leave: the old one (the open
\* failed) or a truncated file (the write failed).
FailedWrite(old) == {old, NoFile}

\* AfterWrite with the speaker returning after its first file.
AfterWrite_Return == "done"

\* The speaker after a successful write: the for loop starts over at the
\* receive from texts.
AfterWrite == "recv"

\* ioutil.WriteFile("output.mp3", resp.AudioContent, 0644)
S_Write ==
    /\ Running /\ spc = "write"
    /\ \/ /\ file' = WriteFile(file, audio)
          /\ spc' = AfterWrite
          /\ UNCHANGED procVars
       \/ /\ file' \in FailedWrite(file)
          /\ Fatal("write")
          /\ UNCHANGED <<warned, spc>>
    /\ UNCHANGED <<mainVars, lVars, rVars, fwd, tVars, textsRecv, stext,
                   audio, synthReqs, lastAudio>>

\* ------------------------------------------------------------ specification
Ingester == L_Read \/ L_Send \/ L_Close
Receiver == R_Recv \/ R_Forward
Translator == R_Forward \/ T_Translate \/ T_Send
Speaker == T_Send \/ S_Init \/ S_Synth \/ S_Write

Next ==
    \/ Setup
    \/ L_Read
    \/ L_Send
    \/ L_Close
    \/ R_Recv
    \/ R_Forward
    \/ T_Translate
    \/ T_Send
    \/ S_Init
    \/ S_Synth
    \/ S_Write

Spec == Init /\ [][Next]_vars

\* The Go scheduler runs every goroutine that can take a step, and the
\* services answer every call.
FairSpec ==
    /\ Spec
    /\ WF_vars(Setup)
    /\ WF_vars(Ingester)
    /\ WF_vars(Receiver)
    /\ WF_vars(Translator)
    /\ WF_vars(Speaker)

TypeOK ==
    /\ exit \in {"running", "exit1", "exit2"}
    /\ reads <= MaxReads + 1
    /\ Len(fwd) <= MaxItems

\* ------------------------------------------------------------------- claims
IsPrefix(a, b) == Len(a) <= Len(b) /\ a = SubSeq(b, 1, Len(a))

MapTranslate(seq) == [i \in 1..Len(seq) |-> Translate(seq[i])]

\* C1: startListeningStdin calls CloseSend at most once, exactly once when it
\* has returned, only when every Read has had its Send, and no Send is issued
\* once CloseSend was called.
C1_CloseSendOnce ==
    /\ [](/\ closeSends <= 1
          /\ (lpc = "done" => closeSends = 1)
          /\ (closeSends = 1 => audioSends = reads))
    /\ [][closeSends >= 1 => audioSends' = audioSends /\ closeSends' = closeSends]_vars

\* C1 witness: the ingester returned after a read with data and the read of
\* end-of-input, each with its Send.
C1_Witness ==
    /\ lpc = "done" /\ closeSends = 1 /\ chunks = 1 /\ audioSends = 2
    /\ exit = "running"

\* C2: what the receiver has sent on alts since it received the response is a
\* proper prefix of the response's alternatives while it ranges over them,
\* and is exactly the response's alternatives, in order, when it goes back to
\* Recv; a response without alternatives sends nothing.
C2_ForwardsAllInOrder ==
    /\ [](rpc = "fwd" =>
            /\ Len(fwd) - fwdBase < Len(Flatten(resp))
            /\ SubSeq(fwd, fwdBase + 1, Len(fwd))
                 = SubSeq(Flatten(resp), 1, Len(fwd) - fwdBase))
    /\ [][rpc = "fwd" /\ rpc' = "recv"
            => SubSeq(fwd', fwdBase + 1, Len(fwd')) = Flatten(resp)]_vars
    /\ [][rpc = "recv" /\ rpc' = "recv" => fwd' = fwd]_vars

\* C2 witness: a response of one result with two different alternatives, the
\* first of them forwarded and the second about to be.
C2_Witness ==
    /\ rpc = "fwd" /\ Len(resp) = 1 /\ Len(resp[1]) = 2 /\ resp[1][1] # resp[1][2]
    /\ ai = 2 /\ Len(fwd) = fwdBase + 1 /\ exit = "running"

\* What startSpeaking has asked the synthesizer for is what it received from
\* texts, each text once and in order; the text it holds at the synthesis
\* call is the one not asked for yet.
OneSynthesisPerText ==
    /\ IsPrefix(synthReqs, textsRecv)
    /\ Len(textsRecv) - Len(synthReqs) = (IF spc = "synth" /\ fatalAt # "synth" THEN 1 ELSE 0)

\* C3 as stated: one synthesis request per text received, and in every state
\* the output file is the audio of the last successful synthesis.
C3_FileIsLastSynthesis ==
    /\ OneSynthesisPerText
    /\ (lastAudio # NoFile => file = lastAudio)

\* C3 amended: one synthesis request per text received, and the output file
\* is the audio of the last successful synthesis in every state in which the
\* speaker is not between that synthesis and the completion of its
\* ioutil.WriteFile (a failed WriteFile ends the process there).
C3_FileIsLastWritten ==
    /\ OneSynthesisPerText
    /\ (lastAudio # NoFile /\ spc # "write" => file = lastAudio)

\* C3 witness: two different texts were synthesized and written, and the file
\* holds the audio of the second.
C3_Witness ==
    /\ spc = "recv" /\ Len(synthReqs) = 2 /\ synthReqs[1] # synthReqs[2]
    /\ file = SynthesizeSpeech(synthReqs[2]) /\ exit = "running"

\* The fatal errors of the translation stage and of the synthesis stage.
TranslationOrSynthesisFatal ==
    fatalAt \in {"translateClient", "translate", "ttsclient", "synth", "write"}

\* C4: a fatal error of the translation or synthesis stage ends the process
\* with status 1, and from then on nothing changes: no stage takes a step,
\* the file keeps its content and no audio is sent.
C4_FatalStopsEverything ==
    /\ [](TranslationOrSynthesisFatal => exit = "exit1")
    /\ [][TranslationOrSynthesisFatal => UNCHANGED vars]_vars

\* C4 witness: the translation of the second alternative failed while the
\* ingester held a chunk to send and the file held the audio of the first.
C4_Witness ==
    /\ fatalAt = "translate" /\ exit = "exit1"
    /\ lpc = "send" /\ n > 0 /\ file # NoFile

\* C5 as stated: when the ingester is through with a stdin of N chunks and
\* end-of-input, with no read or send error, it has sent N audio-content
\* messages, and it signals completion once.
C5_SendsOnePerChunk ==
    (lpc \in {"close", "done"} /\ ~readFailed /\ sendErrs = 0)
        => /\ audioSends = chunks
           /\ (lpc = "done" => closeSends = 1)

\* C6: the translator asks for one translation per alternative it received,
\* in order; what the speaker received are the translations of the first of
\* them, one text per successful translation; and the synthesis requests are
\* the translations of a prefix of what the receiver sent on alts.
C6_OrderAndMultiplicity ==
    /\ IsPrefix(transReqs, fwd)
    /\ (tpc # "translate" => transReqs = fwd)
    /\ Len(fwd) - Len(transReqs) <= 1
    /\ IsPrefix(textsRecv, MapTranslate(transReqs))
    /\ Len(transReqs) - Len(textsRecv) = (IF tpc = "send" \/ fatalAt = "translate" THEN 1 ELSE 0)
    /\ IsPrefix(synthReqs, MapTranslate(fwd))

\* C6 witness: two different alternatives went through translation and
\* synthesis in the order the receiver sent them.
C6_Witness ==
    /\ Len(synthReqs) = 2 /\ synthReqs[1] # synthReqs[2]
    /\ synthReqs = MapTranslate(fwd) /\ exit = "running"

\* Some stage has hit an error: a fatal one, or one the ingester only logs.
ErrorSeen == exit # "running" \/ readFailed \/ sendErrs > 0

\* Every alternative the receiver sent on alts was translated, synthesized
\* and written, and the file holds the audio of the last of them.
AllSpoken ==
    /\ spc = "recv"
    /\ synthReqs = MapTranslate(fwd)
    /\ (fwd # <<>> => file = SynthesizeSpeech(Translate(fwd[Len(fwd)])))

\* C7: in a fair run in which no stage hits an error, from some point on
\* every alternative the receiver forwarded has been translated and
\* synthesized and the file holds, for good, the audio of the last one.
C7_EventuallyAllSpoken == ([]~ErrorSeen) => <>[]AllSpoken

\* C7 witness: one result with two alternatives went through two synthesis
\* cycles without any error, and the file holds the audio of the second.
C7_Witness ==
    /\ ~ErrorSeen /\ AllSpoken /\ rpc = "done" /\ lpc = "done"
    /\ Len(fwd) = 2 /\ fwd[1] # fwd[2] /\ fwdBase = 2

\* C8: a response whose Error is set, whatever its code, and an error of Recv
\* end the process with status 1 at once: nothing of that response is sent
\* on alts, the codes 3 and 11 are warned about, and nothing changes
\* afterwards.
ReceiverFatal == fatalAt \in {"recv", "recognize"}

C8_ReceiverErrorIsFatal ==
    /\ [](/\ (respCode # NoError =>
                /\ exit = "exit1" /\ fatalAt = "recognize"
                /\ Len(fwd) = fwdBase
                /\ warned = (respCode \in {3, 11}))
          /\ (ReceiverFatal => exit = "exit1"))
    /\ [][ReceiverFatal => UNCHANGED vars]_vars

\* C8 witness: a response with the time-limit code 11 and an alternative in
\* it ended the process while the translator was waiting for an alternative
\* and the ingester had a chunk to send.
C8_Witness ==
    /\ fatalAt = "recognize" /\ respCode = 11 /\ Len(Flatten(resp)) = 1
    /\ tpc = "recv" /\ lpc = "send" /\ exit = "exit1"

\* C9: the iteration of a Read that returned an error other than io.EOF ends
\* with the ingester back at Read, the process running and no CloseSend
\* called; CloseSend is only ever reached from a Read of io.EOF.
C9_ReadErrorContinues ==
    /\ [][lpc = "send" /\ rerr = "err" /\ lpc' # "send"
            => lpc' = "read" /\ exit' = "running" /\ closeSends' = closeSends]_vars
    /\ [][lpc' = "close" /\ lpc # "close" => rerr = "EOF"]_vars

\* C9 witness: after a Read that failed, the ingester has read again.
C9_Witness ==
    /\ readFailed /\ lpc = "send" /\ reads = 2 /\ audioSends = 1
    /\ closeSends = 0 /\ exit = "running"

\* C10: the iteration of a Send that failed ends with the process running
\* and the ingester at the next Read, or at CloseSend when the Read of the
\* iteration returned io.EOF; an ingester that returned has called CloseSend
\* once however many Sends failed.
C10_SendErrorContinues ==
    /\ [][lpc = "send" /\ sendErrs' > sendErrs
            => (exit' = "running"
                /\ lpc' = (IF rerr = "EOF" THEN "close" ELSE "read"))]_vars
    /\ [](lpc = "done" /\ sendErrs > 0 => closeSends = 1)

\* C10 witness: every Send failed, that of the end-of-input iteration too,
\* and the ingester still called CloseSend and returned.
C10_Witness ==
    /\ lpc = "done" /\ closeSends = 1 /\ sendErrs = audioSends
    /\ audioSends = 2 /\ exit = "running"

\* The pipeline has nothing left to do: stdin is exhausted, the recognition
\* stream has ended and every forwarded alternative was written.
Drained ==
    /\ exit = "running"
    /\ lpc = "done" /\ rpc = "done" /\ tpc = "recv" /\ spc = "recv"

\* C11: the process is running or was ended by a fatal error (status 1 or
\* 2), never with status 0; and once the pipeline is drained main stays at
\* its receive from wait, the translator at its receive from alts, the
\* speaker at its receive from texts, and nothing changes any more.
C11_NeverExitsSuccessfully ==
    /\ [](/\ exit \in {"running", "exit1", "exit2"}
          /\ (exit = "running" <=> fatalAt = "none")
          /\ (Drained => mpc = "wait"))
    /\ [][Drained => UNCHANGED vars]_vars

\* C11 witness: the pipeline drained after two alternatives were written.
C11_Witness == Drained /\ mpc = "wait" /\ Len(synthReqs) = 2 /\ file # NoFile

\* C12 as stated: whenever the receiver, the translator or the speaker has
\* stopped running, the process has been ended by a fatal error.
C12_OnlyIngesterEnds ==
    (rpc = "done" \/ tpc = "done" \/ spc = "done") => exit # "running"

\* C12 amended: once started, the translator and the speaker are always in
\* their loops, so they stop only with the process; the ingester and the
\* receiver are in their loops or have returned.
C12_TranslatorSpeakerNeverEnd ==
    mpc = "wait" =>
        /\ tpc \in {"recv", "translate", "send"}
        /\ spc \in {"init", "recv", "synth", "write"}
        /\ lpc \in {"read", "send", "close", "done"}
        /\ rpc \in {"recv", "fwd", "done"}

\* C12 witness: the receiver returned on end-of-stream while the process
\* runs and the translator still works on the last alternative.
C12_Witness ==
    /\ rpc = "done" /\ exit = "running" /\ tpc = "translate" /\ Len(fwd) = 2

\* The failures of setupSpeechStream: client creation, stream opening and
\* the Send of the config message.
SetupFailure == fatalAt \in {"speechClient", "stream", "config"}

\* No goroutine of the pipeline was started.
NoStageStarted ==
    lpc = "idle" /\ rpc = "idle" /\ tpc = "idle" /\ spc = "idle"

\* C13: a stage runs, and an audio-content message or CloseSend is issued,
\* only after the config message was sent successfully; when
\* setupSpeechStream fails the process ends with the panic's status before
\* any stage is started and with nothing sent.
C13_ConfigFirst ==
    /\ [](~configSent =>
            NoStageStarted /\ reads = 0 /\ audioSends = 0 /\ closeSends = 0)
    /\ [](SetupFailure => exit = "exit2" /\ ~configSent /\ mpc = "setup")
    /\ [][SetupFailure => UNCHANGED vars]_vars

\* C13 witness: the Send of the config message failed and the process ended
\* with no stage started.
C13_Witness == fatalAt = "config" /\ exit = "exit2" /\ NoStageStarted

\* C14 as stated: only the first alternative of a result is ever sent on
\* alts, so a result gives at most one item.
C14_TopAlternativeOnly == [][fwd' # fwd => ai = 1]_vars

\* C14 amended: the receiver sends every alternative of a result, in order:
\* while it ranges over a result it has sent the alternatives before position
\* ai, each send is of the alternative at ai, and it stays in the result as
\* long as an alternative is left.
C14_EveryAlternative ==
    /\ [](rpc = "fwd" =>
            /\ ri \in 1..Len(resp)
            /\ ai \in 1..Len(resp[ri])
            /\ Len(fwd) - fwdBase >= ai - 1
            /\ SubSeq(fwd, Len(fwd) - ai + 2, Len(fwd)) = SubSeq(resp[ri], 1, ai - 1))
    /\ [][fwd' # fwd =>
            (/\ fwd' = Append(fwd, resp[ri][ai])
             /\ (ai < Len(resp[ri]) => (rpc' = "fwd" /\ ri' = ri /\ ai' = ai + 1)))]_vars

\* C14 witness: the first alternative of a result of two is with the
\* translator and the receiver is at the second.
C14_Witness ==
    /\ rpc = "fwd" /\ ri = 1 /\ ai = 2 /\ Len(resp[1]) = 2
    /\ fwd = <<resp[1][1]>> /\ tpc = "translate"

\* C15: a send on alts completes in the step in which the translator, at its
\* receive, takes the alternative, and a send on texts in the step in which
\* the speaker, at its receive, takes the text; so every alternative sent is
\* with the speaker already or is the one the translator holds, at most two
\* are between the receiver and the synthesizer, and the receiver goes back
\* to Recv only in the step in which the translator takes the last
\* alternative of the response.
C15_Rendezvous ==
    /\ [][fwd' # fwd =>
            (tpc = "recv" /\ tpc' = "translate" /\ ttext' = fwd'[Len(fwd')])]_vars
    /\ [][textsRecv' # textsRecv =>
            (tpc = "send" /\ spc = "recv" /\ spc' = "synth" /\ stext' = translation)]_vars
    /\ [](Len(fwd) - Len(textsRecv) = (IF tpc \in {"translate", "send"} THEN 1 ELSE 0))
    /\ [](Len(fwd) - Len(synthReqs) <= 2)
    /\ [][rpc = "fwd" /\ rpc' = "recv" => (tpc = "recv" /\ tpc' = "translate")]_vars

\* C15 witness: the receiver waits to send the second alternative of a
\* response because the translator waits to send the translation of the
\* first to a speaker that is not at its receive yet.
C15_Witness ==
    /\ rpc = "fwd" /\ ai = 2 /\ Len(fwd) = 1 /\ tpc = "send" /\ spc = "init"
    /\ exit = "running"

\* C16: an error of CloseSend ends the process with status 1 in the step of
\* the call, with the ingester still at it, and nothing changes afterwards:
\* no forward, translation, synthesis or file write.
C16_CloseErrorIsFatal ==
    /\ [](fatalAt = "close" => exit = "exit1" /\ lpc = "close" /\ closeSends = 1)
    /\ [][fatalAt = "close" => UNCHANGED vars]_vars

\* C16 witness: CloseSend failed, after a Send that had failed without
\* ending anything, while the translator held an alternative to translate
\* and the receiver one to forward.
C16_Witness ==
    /\ fatalAt = "close" /\ exit = "exit1" /\ sendErrs > 0
    /\ tpc = "translate" /\ rpc = "fwd"

====
